---- MODULE Spec2Model ----
(***************************************************************************)
(* Client-side cart / order / payment state machine of the storefront.     *)
(*   src/lib/store.ts              useAuthStore, useCartStore (persisted)  *)
(*   src/app/cart/page.tsx         CartPage.handleCheckout                 *)
(*   src/app/checkout/[orderId]    CheckoutPage, CheckoutForm              *)
(*   src/app/products/page.tsx     ProductsPage.handleAddToCart            *)
(***************************************************************************)
EXTENDS Integers, Sequences, FiniteSets, TLC

\* JavaScript null / an absent localStorage key.
Null == "null"

----------------------------------------------------------------------------
\* Bounds of the model.

\* store-level calls take a quantity argument in -MaxQtyArg .. MaxQtyArg
MaxQtyArg == 2
\* a call that would move a line's quantity outside -MaxQuantity .. MaxQuantity
\* is not explored
MaxQuantity == 3

\* the product listing is not asked to add a unit to a line that already
\* holds MaxCartQty of them
MaxCartQty == 1

QtyArgs == (0 - MaxQtyArg)..MaxQtyArg

----------------------------------------------------------------------------
\* Products as the client last observed them (Product of src/types).
\* price arrives either as a JS number or as a decimal string, which is why
\* the code reads it through Number(...).

NumPrice(n) == [type |-> "number", value |-> n, text |-> <<>>]
StrPrice(ds) == [type |-> "string", value |-> 0, text |-> ds]

Products ==
  { [id |-> "A", price |-> NumPrice(10),      stock |-> 1],
    [id |-> "B", price |-> StrPrice(<<2, 5>>), stock |-> 2],
    [id |-> "Z", price |-> NumPrice(5),       stock |-> 0] }

ProductIds == {p.id : p \in Products}

\* Number(x): a number is itself, a string of decimal digits is parsed.
RECURSIVE ParseDigits(_, _)
ParseDigits(ds, acc) ==
  IF ds = <<>> THEN acc ELSE ParseDigits(Tail(ds), acc * 10 + Head(ds))

Number(x) == IF x.type = "number" THEN x.value ELSE ParseDigits(x.text, 0)

----------------------------------------------------------------------------
VARIABLES
  items,        \* useCartStore state: CartItem[]
  cartStorage,  \* localStorage['cart-storage'] written by persist
  user,         \* useAuthStore state
  token,        \* useAuthStore state
  authStorage,  \* localStorage['auth-storage'] written by persist
  lsToken,      \* localStorage['token']
  page,         \* the route being shown
  toasts,       \* the toast messages raised by the last step
  requests,     \* the HTTP requests sent by the last step
  cartLoading,  \* CartPage: const [loading, setLoading] = useState(false)
  calls,        \* POST /orders requests awaited by handleCheckout
  ckOrderId,    \* CheckoutPage: params.orderId
  ckOrder,      \* CheckoutPage: order
  clientSecret, \* CheckoutPage: clientSecret
  ckLoading,    \* CheckoutPage: loading
  ckPc,         \* CheckoutPage.fetchOrder: the await it is suspended at
  payLoading,   \* CheckoutForm: loading
  payPc,        \* CheckoutForm.handleSubmit: the await it is suspended at
  guardPc,      \* AuthGuard.checkAuth: the await it is suspended at
  guardToken,   \* AuthGuard: the token captured by the effect's closure
  isChecking,   \* AuthGuard: isChecking
  isAuthorized, \* AuthGuard: isAuthorized
  storeCall     \* the call last made on useCartStore by a direct caller

storeVars == <<items, cartStorage>>
authVars == <<user, token, authStorage, lsToken>>
cartPageVars == <<cartLoading, calls>>
checkoutVars == <<ckOrderId, ckOrder, clientSecret, ckLoading, ckPc, payLoading, payPc>>
guardVars == <<guardPc, guardToken, isChecking, isAuthorized>>
vars == <<items, cartStorage, user, token, authStorage, lsToken, page, toasts, requests,
          cartLoading, calls, ckOrderId, ckOrder, clientSecret, ckLoading, ckPc,
          payLoading, payPc, guardPc, guardToken, isChecking, isAuthorized,
          storeCall>>

----------------------------------------------------------------------------
\* useCartStore: the state transformers handed to set(...)

HasLine(its, productId) == \E k \in 1..Len(its) : its[k].product.id = productId

addItemNoMerge(its, item) == Append(its, item)

\* addItem that puts a new product's line at the head of the cart
addItemPrepends(its, item) ==
  IF HasLine(its, item.product.id)
  THEN [k \in 1..Len(its) |->
          IF its[k].product.id = item.product.id
          THEN [its[k] EXCEPT !.quantity = its[k].quantity + item.quantity]
          ELSE its[k]]
  ELSE <<item>> \o its

addItem(its, item) ==
  IF HasLine(its, item.product.id)
  THEN [k \in 1..Len(its) |->
          IF its[k].product.id = item.product.id
          THEN [its[k] EXCEPT !.quantity = its[k].quantity + item.quantity]
          ELSE its[k]]
  ELSE Append(its, item)

\* removeItem with the filter's test inverted
removeItemKeepsMatch(its, productId) == SelectSeq(its, LAMBDA i : i.product.id = productId)

removeItem(its, productId) == SelectSeq(its, LAMBDA i : i.product.id # productId)

updateQuantity(its, productId, quantity) ==
  [k \in 1..Len(its) |->
     IF its[k].product.id = productId
     THEN [its[k] EXCEPT !.quantity = quantity]
     ELSE its[k]]

clearCart == <<>>

\* total(): items.reduce((sum, item) => sum + Number(price) * quantity, 0)
RECURSIVE reduce(_, _)
reduce(its, sum) ==
  IF its = <<>> THEN sum
  ELSE reduce(Tail(its), sum + Number(Head(its).product.price) * Head(its).quantity)

totalNoQuantity(its) ==
  reduce([k \in 1..Len(its) |-> [its[k] EXCEPT !.quantity = 1]], 0)

total(its) == reduce(its, 0)

----------------------------------------------------------------------------
\* persist(..., { name: 'cart-storage' }): every set(...) is followed by a
\* write of the JSON-serialised state under the store's key; on start the
\* stored record, when present, is parsed and merged over the initial state.

JSONstringify(its) ==
  [k \in 1..Len(its) |->
     <<its[k].product.id, its[k].product.price, its[k].product.stock,
       its[k].quantity>>]

JSONparse(s) ==
  [k \in 1..Len(s) |->
     [product |-> [id |-> s[k][1], price |-> s[k][2], stock |-> s[k][3]],
      quantity |-> s[k][4]]]

\* a localStorage key holds <<>> while absent and <<record>> once written
CartRecord(its) == <<[state |-> JSONstringify(its), version |-> 0]>>

Rehydrate(stored) == IF stored = <<>> THEN <<>> ELSE JSONparse(stored[1].state)

setCartNoPersist(newItems) ==
  /\ items' = newItems
  /\ UNCHANGED cartStorage

setCart(newItems) ==
  /\ items' = newItems
  /\ cartStorage' = CartRecord(newItems)

InRange(its) ==
  \A k \in 1..Len(its) :
    its[k].quantity \in (0 - MaxQuantity)..MaxQuantity

----------------------------------------------------------------------------
\* useAuthStore

Users == {"u1"}
Tokens == {"t1"}

AuthRecord(u, t) == <<[state |-> [user |-> u, token |-> t], version |-> 0]>>

\* setAuth without localStorage.setItem('token', token)
setAuthStoreOnly(u, t) ==
  /\ UNCHANGED lsToken
  /\ user' = u
  /\ token' = t
  /\ authStorage' = AuthRecord(u, t)

setAuth(u, t) ==
  /\ lsToken' = t
  /\ user' = u
  /\ token' = t
  /\ authStorage' = AuthRecord(u, t)

\* logout without localStorage.removeItem('token')
logoutKeepsLocalToken ==
  /\ UNCHANGED lsToken
  /\ user' = Null
  /\ token' = Null
  /\ authStorage' = AuthRecord(Null, Null)

logout ==
  /\ lsToken' = Null
  /\ user' = Null
  /\ token' = Null
  /\ authStorage' = AuthRecord(Null, Null)

----------------------------------------------------------------------------
Init ==
  /\ items = <<>>
  /\ cartStorage = <<>>
  /\ user = Null
  /\ token = Null
  /\ authStorage = <<>>
  /\ lsToken = Null
  /\ page = "products"
  /\ toasts = {}
  /\ requests = <<>>
  /\ cartLoading = FALSE
  /\ calls = <<>>
  /\ ckOrderId = Null
  /\ ckOrder = Null
  /\ clientSecret = ""
  /\ ckLoading = FALSE
  /\ ckPc = "none"
  /\ payLoading = FALSE
  /\ payPc = "idle"
  /\ guardPc = "none"
  /\ guardToken = Null
  /\ isChecking = FALSE
  /\ isAuthorized = FALSE
  /\ storeCall = [op |-> "none", productId |-> Null, quantity |-> 0]

----------------------------------------------------------------------------
\* The cart store called directly, with any product and any quantity.

appVars == <<user, token, authStorage, lsToken, page, toasts, requests, cartLoading, calls,
             ckOrderId, ckOrder, clientSecret, ckLoading, ckPc, payLoading, payPc,
             guardPc, guardToken, isChecking, isAuthorized>>

StoreCall(op, id, q) == [op |-> op, productId |-> id, quantity |-> q]

CallAddItem(p, q) ==
  /\ InRange(addItem(items, [product |-> p, quantity |-> q]))
  /\ setCart(addItem(items, [product |-> p, quantity |-> q]))
  /\ storeCall' = StoreCall("addItem", p.id, q)
  /\ UNCHANGED appVars

CallRemoveItem(id) ==
  /\ setCart(removeItem(items, id))
  /\ storeCall' = StoreCall("removeItem", id, 0)
  /\ UNCHANGED appVars

CallUpdateQuantity(id, q) ==
  /\ setCart(updateQuantity(items, id, q))
  /\ storeCall' = StoreCall("updateQuantity", id, q)
  /\ UNCHANGED appVars

CallClearCart ==
  /\ setCart(clearCart)
  /\ storeCall' = StoreCall("clearCart", Null, 0)
  /\ UNCHANGED appVars

\* the process ends and starts again: the store is created anew and persist
\* rehydrates it from localStorage
StoreRestart ==
  /\ items' = Rehydrate(cartStorage)
  /\ UNCHANGED cartStorage
  /\ storeCall' = StoreCall("none", Null, 0)
  /\ UNCHANGED appVars

StoreNext ==
  \/ \E p \in Products, q \in QtyArgs : CallAddItem(p, q)
  \/ \E id \in ProductIds : CallRemoveItem(id)
  \/ \E id \in ProductIds, q \in QtyArgs : CallUpdateQuantity(id, q)
  \/ CallClearCart
  \/ StoreRestart

SpecStore == Init /\ [][StoreNext]_vars

----------------------------------------------------------------------------
\* The application: pages, handlers and the continuations of their awaits.

\* at most MaxInflight POST /orders requests are awaited at a time
MaxInflight == 2

OrderIds == {"o1", "o2"}

\* The requests the cart and checkout code hands to the axios instance; the
\* request interceptor adds the Authorization header from localStorage['token'].
NoBody == [items |-> <<>>, orderId |-> Null, provider |-> Null]

Request(method, url, body) ==
  [method |-> method, url |-> url, authorization |-> lsToken, body |-> body]

RemoveAt(s, k) == SubSeq(s, 1, k - 1) \o SubSeq(s, k + 1, Len(s))

\* CartPage is unmounted when the route leaves /cart: its loading flag is
\* dropped, and the setLoading of a handler still awaiting acts on nothing.
MarkUnmounted(cs) == [k \in 1..Len(cs) |-> [cs[k] EXCEPT !.mounted = FALSE]]

LeavesCart(to) == page = "cart" /\ to # "cart"

CallsAfterNav(cs, to) == IF LeavesCart(to) THEN MarkUnmounted(cs) ELSE cs

LoadingAfterNav(l, to) == IF LeavesCart(to) THEN FALSE ELSE l

\* CheckoutPage mounted for /checkout/<id>: its state is initialised, the
\* effect of its AuthGuard runs checkAuth up to its first await, and its own
\* effect calls fetchOrder, which sends GET /orders/<id>.
\* MountCheckoutAs with the order and the client secret kept from the page
\* shown before (as if held outside the component)
MountCheckoutKeepsOrder(tok, id, ts) ==
  /\ ckOrderId' = id
  /\ UNCHANGED <<ckOrder, clientSecret>>
  /\ ckLoading' = TRUE
  /\ ckPc' = "getById"
  /\ payLoading' = FALSE
  /\ payPc' = "idle"
  /\ guardToken' = tok
  /\ isAuthorized' = FALSE
  /\ IF tok = Null
     THEN /\ guardPc' = "done"
          /\ isChecking' = FALSE
          /\ page' = "login"
          /\ toasts' = ts \cup {"Please login to access this page"}
          /\ requests' = <<Request("GET", <<"orders", id>>, NoBody)>>
     ELSE /\ guardPc' = "getMe"
          /\ isChecking' = TRUE
          /\ page' = "checkout"
          /\ toasts' = ts
          /\ requests' = <<Request("GET", <<"users", "me">>, NoBody),
                           Request("GET", <<"orders", id>>, NoBody)>>
  /\ UNCHANGED storeCall

\* the mount with `tok` the token the auth store holds when AuthGuard renders
MountCheckoutAs(tok, id, ts) ==
  /\ ckOrderId' = id
  /\ ckOrder' = Null
  /\ clientSecret' = ""
  /\ ckLoading' = TRUE
  /\ ckPc' = "getById"
  /\ payLoading' = FALSE
  /\ payPc' = "idle"
  /\ guardToken' = tok
  /\ isAuthorized' = FALSE
  /\ IF tok = Null
     THEN /\ guardPc' = "done"
          /\ isChecking' = FALSE
          /\ page' = "login"
          /\ toasts' = ts \cup {"Please login to access this page"}
          /\ requests' = <<Request("GET", <<"orders", id>>, NoBody)>>
     ELSE /\ guardPc' = "getMe"
          /\ isChecking' = TRUE
          /\ page' = "checkout"
          /\ toasts' = ts
          /\ requests' = <<Request("GET", <<"users", "me">>, NoBody),
                           Request("GET", <<"orders", id>>, NoBody)>>
  /\ UNCHANGED storeCall

MountCheckout(id, ts) == MountCheckoutAs(token, id, ts)

\* ---- navigation by the user (Navbar links, the address bar)

GoTo(to) ==
  /\ page # to
  /\ page' = to
  /\ toasts' = {}
  /\ requests' = <<>>
  /\ calls' = CallsAfterNav(calls, to)
  /\ cartLoading' = LoadingAfterNav(cartLoading, to)
  /\ UNCHANGED <<storeVars, authVars, checkoutVars, guardVars>>
  /\ UNCHANGED storeCall

OpenCheckout(id) ==
  /\ MountCheckout(id, {})
  /\ calls' = MarkUnmounted(calls)
  /\ cartLoading' = FALSE
  /\ UNCHANGED <<storeVars, authVars>>

\* ---- session

\* RegisterPage.handleSubmit after authAPI.register resolved
RegisterSucceeds(u, t) ==
  /\ page = "login"
  /\ setAuth(u, t)
  /\ toasts' = {"Account created successfully!"}
  /\ requests' = <<>>
  /\ page' = "products"
  /\ UNCHANGED <<storeVars, cartPageVars, checkoutVars, guardVars>>
  /\ UNCHANGED storeCall

\* Navbar: onClick={logout}
ClickLogout ==
  /\ user # Null
  /\ logout
  /\ toasts' = {}
  /\ requests' = <<>>
  /\ UNCHANGED <<storeVars, page, cartPageVars, checkoutVars, guardVars>>
  /\ UNCHANGED storeCall

\* ---- ProductsPage

\* handleAddToCart without the stock test
handleAddToCartNoStockCheck(product) ==
  /\ page = "products"
  /\ \A k \in 1..Len(items) :
       items[k].product.id = product.id => items[k].quantity < MaxCartQty
  /\ setCart(addItem(items, [product |-> product, quantity |-> 1]))
  /\ toasts' = {"Added to cart!"}
  /\ requests' = <<>>
  /\ UNCHANGED <<authVars, page, cartPageVars, checkoutVars, guardVars>>
  /\ UNCHANGED storeCall

handleAddToCart(product) ==
  /\ page = "products"
  /\ IF product.stock = 0
     THEN /\ toasts' = {"Product out of stock"}
          /\ requests' = <<>>
          /\ UNCHANGED storeVars
     ELSE /\ \A k \in 1..Len(items) :
               items[k].product.id = product.id => items[k].quantity < MaxCartQty
          /\ setCart(addItem(items, [product |-> product, quantity |-> 1]))
          /\ toasts' = {"Added to cart!"}
          /\ requests' = <<>>
  /\ UNCHANGED <<authVars, page, cartPageVars, checkoutVars, guardVars>>
  /\ UNCHANGED storeCall

\* ---- CartPage

Max(a, b) == IF a > b THEN a ELSE b

Min(a, b) == IF a < b THEN a ELSE b

\* ClickDecrease without Math.max(1, ...)
ClickDecreaseNoFloor(k) ==
  /\ page = "cart"
  /\ k \in 1..Len(items)
  /\ setCart(updateQuantity(items, items[k].product.id, items[k].quantity - 1))
  /\ toasts' = {}
  /\ requests' = <<>>
  /\ UNCHANGED <<authVars, page, cartPageVars, checkoutVars, guardVars>>
  /\ UNCHANGED storeCall

ClickDecrease(k) ==
  /\ page = "cart"
  /\ k \in 1..Len(items)
  /\ setCart(updateQuantity(items, items[k].product.id,
                            Max(1, items[k].quantity - 1)))
  /\ toasts' = {}
  /\ requests' = <<>>
  /\ UNCHANGED <<authVars, page, cartPageVars, checkoutVars, guardVars>>
  /\ UNCHANGED storeCall

ClickIncrease(k) ==
  /\ page = "cart"
  /\ k \in 1..Len(items)
  /\ ~(items[k].quantity >= items[k].product.stock)
  /\ setCart(updateQuantity(items, items[k].product.id,
                            Min(items[k].product.stock, items[k].quantity + 1)))
  /\ toasts' = {}
  /\ requests' = <<>>
  /\ UNCHANGED <<authVars, page, cartPageVars, checkoutVars, guardVars>>
  /\ UNCHANGED storeCall

ClickRemove(k) ==
  /\ page = "cart"
  /\ k \in 1..Len(items)
  /\ setCart(removeItem(items, items[k].product.id))
  /\ toasts' = {"Item removed from cart"}
  /\ requests' = <<>>
  /\ UNCHANGED <<authVars, page, cartPageVars, checkoutVars, guardVars>>
  /\ UNCHANGED storeCall

orderDataUnitQuantity(its) ==
  [k \in 1..Len(its) |-> [productId |-> its[k].product.id, quantity |-> 1]]

orderData(its) ==
  [k \in 1..Len(its) |->
     [productId |-> its[k].product.id, quantity |-> its[k].quantity]]

SendCreateOrder ==
  /\ Len(calls) < MaxInflight
  /\ cartLoading' = TRUE
  /\ calls' = Append(calls, [mounted |-> TRUE])
  /\ requests' = <<Request("POST", <<"orders">>,
                           [NoBody EXCEPT !.items = orderData(items)])>>
  /\ toasts' = {}
  /\ UNCHANGED page

handleCheckoutNoAuthCheck ==
  /\ page = "cart"
  /\ IF Len(items) = 0
     THEN /\ toasts' = {"Your cart is empty"}
          /\ requests' = <<>>
          /\ UNCHANGED <<page, cartPageVars>>
     ELSE SendCreateOrder
  /\ UNCHANGED <<storeVars, authVars, checkoutVars, guardVars>>
  /\ UNCHANGED storeCall

handleCheckoutNoEmptyCheck ==
  /\ page = "cart"
  /\ IF user = Null
     THEN /\ toasts' = {"Please login to checkout"}
          /\ requests' = <<>>
          /\ page' = "login"
          /\ calls' = MarkUnmounted(calls)
          /\ cartLoading' = FALSE
     ELSE SendCreateOrder
  /\ UNCHANGED <<storeVars, authVars, checkoutVars, guardVars>>
  /\ UNCHANGED storeCall

handleCheckoutEmptyFirst ==
  /\ page = "cart"
  /\ IF Len(items) = 0
     THEN /\ toasts' = {"Your cart is empty"}
          /\ requests' = <<>>
          /\ UNCHANGED <<page, cartPageVars>>
     ELSE IF user = Null
     THEN /\ toasts' = {"Please login to checkout"}
          /\ requests' = <<>>
          /\ page' = "login"
          /\ calls' = MarkUnmounted(calls)
          /\ cartLoading' = FALSE
     ELSE SendCreateOrder
  /\ UNCHANGED <<storeVars, authVars, checkoutVars, guardVars>>
  /\ UNCHANGED storeCall

\* handleCheckout up to its await of orderAPI.create
handleCheckout ==
  /\ page = "cart"
  /\ IF user = Null
     THEN /\ toasts' = {"Please login to checkout"}
          /\ requests' = <<>>
          /\ page' = "login"
          /\ calls' = MarkUnmounted(calls)
          /\ cartLoading' = FALSE
     ELSE IF Len(items) = 0
     THEN /\ toasts' = {"Your cart is empty"}
          /\ requests' = <<>>
          /\ UNCHANGED <<page, cartPageVars>>
     ELSE SendCreateOrder
  /\ UNCHANGED <<storeVars, authVars, checkoutVars, guardVars>>
  /\ UNCHANGED storeCall

CreateOrderSucceedsKeepCart(k, id) ==
  /\ k \in 1..Len(calls)
  /\ UNCHANGED storeVars
  /\ calls' = MarkUnmounted(RemoveAt(calls, k))
  /\ cartLoading' = FALSE
  /\ MountCheckout(id, {"Order created successfully! Redirecting to checkout..."})
  /\ UNCHANGED authVars

\* handleCheckout after orderAPI.create resolved with the order `id`
CreateOrderSucceeds(k, id) ==
  /\ k \in 1..Len(calls)
  /\ setCart(clearCart)
  /\ calls' = MarkUnmounted(RemoveAt(calls, k))
  /\ cartLoading' = FALSE
  /\ MountCheckout(id, {"Order created successfully! Redirecting to checkout..."})
  /\ UNCHANGED authVars

\* what the response interceptor leaves in error.userMessage
Failures == {"Unauthorized", "Network error. Please check your connection."}

\* CreateOrderFails with a catch block that also empties the cart
CreateOrderFailsClearsCart(k, msg) ==
  /\ k \in 1..Len(calls)
  /\ toasts' = {msg}
  /\ requests' = <<>>
  /\ calls' = RemoveAt(calls, k)
  /\ cartLoading' = IF calls[k].mounted THEN FALSE ELSE cartLoading
  /\ setCart(clearCart)
  /\ UNCHANGED <<authVars, page, checkoutVars, guardVars>>
  /\ UNCHANGED storeCall

\* CreateOrderFails with a catch block that sends the order again
CreateOrderFailsResends(k, msg) ==
  /\ k \in 1..Len(calls)
  /\ toasts' = {msg}
  /\ requests' = <<Request("POST", <<"orders">>,
                           [NoBody EXCEPT !.items = orderData(items)])>>
  /\ UNCHANGED <<storeVars, authVars, page, cartPageVars, checkoutVars, guardVars>>
  /\ UNCHANGED storeCall

\* CreateOrderFails without the finally block's setLoading(false)
CreateOrderFailsKeepsLoading(k, msg) ==
  /\ k \in 1..Len(calls)
  /\ toasts' = {msg}
  /\ requests' = <<>>
  /\ calls' = RemoveAt(calls, k)
  /\ UNCHANGED cartLoading
  /\ UNCHANGED <<storeVars, authVars, page, checkoutVars, guardVars>>
  /\ UNCHANGED storeCall

\* handleCheckout after orderAPI.create rejected: catch, then finally
CreateOrderFails(k, msg) ==
  /\ k \in 1..Len(calls)
  /\ toasts' = {msg}
  /\ requests' = <<>>
  /\ calls' = RemoveAt(calls, k)
  /\ cartLoading' = IF calls[k].mounted THEN FALSE ELSE cartLoading
  /\ UNCHANGED <<storeVars, authVars, page, checkoutVars, guardVars>>
  /\ UNCHANGED storeCall

\* ---- CheckoutPage

\* fetchOrder after orderAPI.getById resolved: setOrder(data), then
\* initiatePayment(data.id) sends POST /payments/checkout
FetchOrderSucceeds ==
  /\ ckPc = "getById"
  /\ ckOrder' = ckOrderId
  /\ ckPc' = "checkout"
  /\ toasts' = {}
  /\ requests' = <<Request("POST", <<"payments", "checkout">>,
                           [NoBody EXCEPT !.orderId = ckOrderId, !.provider = "STRIPE"])>>
  /\ UNCHANGED <<storeVars, authVars, page, cartPageVars, ckOrderId, clientSecret,
                 ckLoading, payLoading, payPc, guardVars>>
  /\ UNCHANGED storeCall

\* FetchOrderFails with a catch block that goes on to initiatePayment(orderId)
FetchOrderFailsStillPays(msg) ==
  /\ ckPc = "getById"
  /\ toasts' = {msg}
  /\ requests' = <<Request("POST", <<"payments", "checkout">>,
                           [NoBody EXCEPT !.orderId = ckOrderId, !.provider = "STRIPE"])>>
  /\ page' = "orders"
  /\ calls' = CallsAfterNav(calls, "orders")
  /\ cartLoading' = LoadingAfterNav(cartLoading, "orders")
  /\ ckLoading' = FALSE
  /\ ckPc' = "done"
  /\ UNCHANGED <<storeVars, authVars, ckOrderId, ckOrder, clientSecret,
                 payLoading, payPc, guardVars>>
  /\ UNCHANGED storeCall

\* fetchOrder after orderAPI.getById rejected: catch, then finally
FetchOrderFails(msg) ==
  /\ ckPc = "getById"
  /\ toasts' = {msg}
  /\ requests' = <<>>
  /\ page' = "orders"
  /\ calls' = CallsAfterNav(calls, "orders")
  /\ cartLoading' = LoadingAfterNav(cartLoading, "orders")
  /\ ckLoading' = FALSE
  /\ ckPc' = "done"
  /\ UNCHANGED <<storeVars, authVars, ckOrderId, ckOrder, clientSecret,
                 payLoading, payPc, guardVars>>
  /\ UNCHANGED storeCall

\* initiatePayment after paymentAPI.checkout resolved, then fetchOrder's finally
InitiatePaymentSucceeds ==
  /\ ckPc = "checkout"
  /\ clientSecret' = "cs"
  /\ ckLoading' = FALSE
  /\ ckPc' = "done"
  /\ toasts' = {}
  /\ requests' = <<>>
  /\ UNCHANGED <<storeVars, authVars, page, cartPageVars, ckOrderId, ckOrder,
                 payLoading, payPc, guardVars>>
  /\ UNCHANGED storeCall

\* InitiatePaymentFails with a catch block that calls initiatePayment again
InitiatePaymentFailsRetries(msg) ==
  /\ ckPc = "checkout"
  /\ toasts' = {msg}
  /\ requests' = <<Request("POST", <<"payments", "checkout">>,
                           [NoBody EXCEPT !.orderId = ckOrderId, !.provider = "STRIPE"])>>
  /\ UNCHANGED <<storeVars, authVars, page, cartPageVars, ckOrderId, ckOrder,
                 clientSecret, ckLoading, ckPc, payLoading, payPc, guardVars>>
  /\ UNCHANGED storeCall

\* initiatePayment after paymentAPI.checkout rejected: its catch, then
\* fetchOrder's finally
InitiatePaymentFails(msg) ==
  /\ ckPc = "checkout"
  /\ toasts' = {msg}
  /\ requests' = <<>>
  /\ ckLoading' = FALSE
  /\ ckPc' = "done"
  /\ UNCHANGED <<storeVars, authVars, page, cartPageVars, ckOrderId, ckOrder,
                 clientSecret, payLoading, payPc, guardVars>>
  /\ UNCHANGED storeCall

\* FormRendered with a not-found guard that tests only the order
FormRenderedWithoutSecret ==
  /\ page = "checkout"
  /\ ~ckLoading
  /\ ckOrder # Null
  /\ ~isChecking
  /\ isAuthorized

\* CheckoutForm is rendered: the route is /checkout/<id>, CheckoutPage is past
\* its loading and not-found returns, and AuthGuard renders its children
FormRendered ==
  /\ page = "checkout"
  /\ ~ckLoading
  /\ ckOrder # Null
  /\ clientSecret # ""
  /\ ~isChecking
  /\ isAuthorized

\* CheckoutForm.handleSubmit up to its await of stripe.confirmPayment
handleSubmit ==
  /\ FormRendered
  /\ payPc = "idle"
  /\ payLoading' = TRUE
  /\ payPc' = "confirmPayment"
  /\ toasts' = {}
  /\ requests' = <<>>
  /\ UNCHANGED <<storeVars, authVars, page, cartPageVars, ckOrderId, ckOrder,
                 clientSecret, ckLoading, ckPc, guardVars>>
  /\ UNCHANGED storeCall

\* ConfirmPaymentFails that never calls setLoading(false)
ConfirmPaymentFailsKeepsLoading(msg) ==
  /\ payPc = "confirmPayment"
  /\ toasts' = {msg}
  /\ requests' = <<>>
  /\ payPc' = "idle"
  /\ UNCHANGED <<storeVars, authVars, page, cartPageVars, ckOrderId, ckOrder,
                 clientSecret, ckLoading, ckPc, payLoading, guardVars>>
  /\ UNCHANGED storeCall

\* stripe.confirmPayment resolved with an error, or threw
ConfirmPaymentFails(msg) ==
  /\ payPc = "confirmPayment"
  /\ toasts' = {msg}
  /\ requests' = <<>>
  /\ payLoading' = FALSE
  /\ payPc' = "idle"
  /\ UNCHANGED <<storeVars, authVars, page, cartPageVars, ckOrderId, ckOrder,
                 clientSecret, ckLoading, ckPc, guardVars>>
  /\ UNCHANGED storeCall

\* ---- AuthGuard of the checkout page

\* checkAuth after authAPI.getMe resolved
GetMeSucceeds(u) ==
  /\ guardPc = "getMe"
  /\ setAuth(u, guardToken)
  /\ isAuthorized' = TRUE
  /\ isChecking' = FALSE
  /\ guardPc' = "done"
  /\ toasts' = {}
  /\ requests' = <<>>
  /\ UNCHANGED <<storeVars, page, cartPageVars, checkoutVars, guardToken>>
  /\ UNCHANGED storeCall

\* checkAuth after authAPI.getMe rejected
GetMeFails ==
  /\ guardPc = "getMe"
  /\ logout
  /\ toasts' = {"Session expired. Please login again."}
  /\ requests' = <<>>
  /\ page' = "login"
  /\ calls' = CallsAfterNav(calls, "login")
  /\ cartLoading' = LoadingAfterNav(cartLoading, "login")
  /\ isChecking' = FALSE
  /\ guardPc' = "done"
  /\ UNCHANGED <<storeVars, checkoutVars, guardToken, isAuthorized>>
  /\ UNCHANGED storeCall

\* ---- a full page load

\* The document is loaded anew at `to`: both stores are created again and
\* rehydrated from localStorage, every component's state and every pending
\* continuation is gone.
AuthOf(stored) == IF stored = <<>> THEN [user |-> Null, token |-> Null]
                  ELSE stored[1].state

PageLoad(to, ts) ==
  /\ items' = Rehydrate(cartStorage)
  /\ user' = AuthOf(authStorage).user
  /\ token' = AuthOf(authStorage).token
  /\ UNCHANGED <<cartStorage, authStorage, lsToken>>
  /\ page' = to
  /\ toasts' = ts
  /\ requests' = <<>>
  /\ cartLoading' = FALSE
  /\ calls' = <<>>
  /\ ckOrderId' = Null
  /\ ckOrder' = Null
  /\ clientSecret' = ""
  /\ ckLoading' = FALSE
  /\ ckPc' = "none"
  /\ payLoading' = FALSE
  /\ payPc' = "idle"
  /\ guardPc' = "none"
  /\ guardToken' = Null
  /\ isChecking' = FALSE
  /\ isAuthorized' = FALSE
  /\ UNCHANGED storeCall

\* the user closes the site and opens it again at the product listing
Restart == PageLoad("products", {})

\* stripe.confirmPayment succeeded: Stripe redirects the browser to
\* return_url, /orders?payment=success, where OrdersPage raises its toast
ConfirmPaymentSucceeds ==
  /\ payPc = "confirmPayment"
  /\ PageLoad("orders", {"Payment completed successfully!"})

\* the browser loads /orders?payment=success from any other origin of the URL
\* (typed, bookmarked, a link): OrdersPage's effect finds payment=success in
\* the query string and raises its toast
OpenReturnUrl == PageLoad("orders", {"Payment completed successfully!"})

\* the browser loads /checkout/<id> as a new document (a reload, a bookmark,
\* another tab): the stores are rehydrated and CheckoutPage mounts
LoadCheckout(id) ==
  /\ items' = Rehydrate(cartStorage)
  /\ user' = AuthOf(authStorage).user
  /\ token' = AuthOf(authStorage).token
  /\ UNCHANGED <<cartStorage, authStorage, lsToken>>
  /\ cartLoading' = FALSE
  /\ calls' = <<>>
  /\ MountCheckoutAs(AuthOf(authStorage).token, id, {})

Next ==
  \/ \E to \in {"products", "cart", "login", "orders"} : GoTo(to)
  \/ \E id \in OrderIds : OpenCheckout(id)
  \/ \E u \in Users, t \in Tokens : RegisterSucceeds(u, t)
  \/ ClickLogout
  \/ \E p \in Products : handleAddToCart(p)
  \/ \E k \in 1..Len(items) : ClickDecrease(k)
  \/ \E k \in 1..Len(items) : ClickIncrease(k)
  \/ \E k \in 1..Len(items) : ClickRemove(k)
  \/ handleCheckout
  \/ \E k \in 1..Len(calls), id \in OrderIds : CreateOrderSucceeds(k, id)
  \/ \E k \in 1..Len(calls), msg \in Failures : CreateOrderFails(k, msg)
  \/ FetchOrderSucceeds
  \/ \E msg \in Failures : FetchOrderFails(msg)
  \/ InitiatePaymentSucceeds
  \/ \E msg \in Failures : InitiatePaymentFails(msg)
  \/ handleSubmit
  \/ \E msg \in {"Your card was declined.", "Payment failed"} : ConfirmPaymentFails(msg)
  \/ ConfirmPaymentSucceeds
  \/ OpenReturnUrl
  \/ \E id \in OrderIds : LoadCheckout(id)
  \/ \E u \in Users : GetMeSucceeds(u)
  \/ GetMeFails
  \/ Restart

Spec == Init /\ [][Next]_vars

----------------------------------------------------------------------------
\* Properties of the cart store (checked under SpecStore).

LinesOf(its, productId) == {k \in 1..Len(its) : its[k].product.id = productId}

\* C1: after any sequence of addItem and updateQuantity calls every cart
\* line's quantity q satisfies 1 <= q <= the line's product stock.
C1_QuantityWithinStock ==
  \A k \in 1..Len(items) :
    /\ 1 <= items[k].quantity
    /\ items[k].quantity <= items[k].product.stock

\* C2: addItem(product, q2) on a cart that holds a line for the product with
\* quantity q1 leaves exactly one line for it, of quantity min(q1 + q2, stock).
C2_AddMergesClamped ==
  [][\A p \in Products, q2 \in QtyArgs :
       (HasLine(items, p.id) /\ CallAddItem(p, q2)) =>
         \E k \in 1..Len(items) :
           /\ items[k].product.id = p.id
           /\ LinesOf(items', p.id) = {k}
           /\ items'[k].quantity = Min(items[k].quantity + q2, p.stock)]_vars

\* C3: in every reachable cart state no two cart lines have the same
\* product id.
C3_OneLinePerProduct ==
  \A j, k \in 1..Len(items) :
    items[j].product.id = items[k].product.id => j = k

C3_Witness ==
  /\ Len(items) = 2
  /\ \E k \in 1..Len(items) : items[k].quantity = 2

\* the unit prices as plain numbers, by product id
UnitPrice(productId) ==
  CASE productId = "A" -> 10
    [] productId = "B" -> 25
    [] productId = "Z" -> 5

RECURSIVE SumOfLines(_, _)
SumOfLines(its, n) ==
  IF n = 0 THEN 0
  ELSE SumOfLines(its, n - 1) + UnitPrice(its[n].product.id) * its[n].quantity

\* C4: total() is the sum over the current cart lines of price x quantity,
\* and 0 for the empty cart.
C4_TotalIsSum ==
  /\ total(items) = SumOfLines(items, Len(items))
  /\ items = <<>> => total(items) = 0

C4_Witness ==
  /\ Len(items) = 2
  /\ items[1].product.id = "B"
  /\ items[1].quantity = 2
  /\ items[2].quantity = 3
  /\ total(items) = 80

----------------------------------------------------------------------------
\* Properties of the checkout trigger of the cart page (checked under Spec).

\* the order-creation requests among the requests sent by a step
OrderRequests(rs) ==
  {k \in 1..Len(rs) : rs[k].method = "POST" /\ rs[k].url = <<"orders">>}

\* the step neither sends an order-creation request nor leaves a handler
\* waiting for one
NoOrderRequest ==
  /\ OrderRequests(requests') = {}
  /\ Len(calls') = Len(calls)

Unauthenticated == {"Please login to checkout"}

EmptyCart == {"Your cart is empty"}

\* C6 as stated: handleCheckout with an empty cart issues no order-creation
\* request and ends with the empty-cart error.
C6_EmptyCartAlwaysEmptyCartError ==
  [][(handleCheckout /\ Len(items) = 0) =>
       (NoOrderRequest /\ toasts' = EmptyCart)]_vars

\* C6 as amended: handleCheckout with an empty cart issues no order-creation
\* request; it ends with the empty-cart error when a user is logged in, and
\* with the unauthenticated error and the redirect to login when none is.
C6_EmptyCartNoRequest ==
  [][(handleCheckout /\ Len(items) = 0) =>
       /\ NoOrderRequest
       /\ user # Null => (toasts' = EmptyCart /\ page' = page)
       /\ user = Null => (toasts' = Unauthenticated /\ page' = "login")]_vars

C6_Witness ==
  /\ toasts = EmptyCart
  /\ page = "cart"
  /\ items = <<>>
  /\ user # Null
  /\ calls = <<>>

\* C7: handleCheckout while the session carries no credential token issues
\* no order-creation request, ends with the unauthenticated error and
\* redirects to login.
C7_NoTokenNoRequest ==
  [][(handleCheckout /\ token = Null) =>
       /\ NoOrderRequest
       /\ toasts' = Unauthenticated
       /\ page' = "login"]_vars

C7_Witness ==
  /\ toasts = Unauthenticated
  /\ page = "login"
  /\ token = Null
  /\ Len(items) = 2

\* C8: the preconditions are checked in the order authenticated, non-empty
\* cart: a checkout with neither a credential nor a cart line fails as
\* Unauthenticated, never as EmptyCart.
C8_UnauthenticatedBeforeEmptyCart ==
  [][(handleCheckout /\ token = Null /\ user = Null /\ Len(items) = 0) =>
       (toasts' = Unauthenticated /\ toasts' # EmptyCart)]_vars

C8_Witness ==
  /\ toasts = Unauthenticated
  /\ page = "login"
  /\ token = Null
  /\ user = Null
  /\ items = <<>>

\* C9: a checkout that passes both preconditions issues exactly one
\* order-creation request, whose items are the (productId, quantity) pairs of
\* the cart lines at that time, one per line in cart order; when the request
\* succeeds the cart is cleared and the checkout page of the returned order
\* id is entered, and no further order-creation request is sent.
C9_OneRequestThenHandOff ==
  [][/\ (handleCheckout /\ user # Null /\ Len(items) > 0) =>
          /\ Len(requests') = 1
          /\ OrderRequests(requests') = {1}
          /\ Len(requests'[1].body.items) = Len(items)
          /\ \A k \in 1..Len(items) :
               /\ requests'[1].body.items[k].productId = items[k].product.id
               /\ requests'[1].body.items[k].quantity = items[k].quantity
          /\ Len(calls') = Len(calls) + 1
          /\ items' = items
     /\ \A k \in 1..Len(calls), id \in OrderIds :
          CreateOrderSucceeds(k, id) =>
            /\ items' = <<>>
            /\ ckOrderId' = id
            /\ ckPc' = "getById"
            /\ \E j \in 1..Len(requests') : requests'[j].url = <<"orders", id>>
            /\ OrderRequests(requests') = {}
            /\ Len(calls') = Len(calls) - 1]_vars

C9_Witness ==
  /\ Len(requests) = 1
  /\ requests[1].method = "POST"
  /\ requests[1].url = <<"orders">>
  /\ requests[1].body.items = <<[productId |-> "B", quantity |-> 2],
                                [productId |-> "A", quantity |-> 1]>>
  /\ cartLoading
  /\ Len(calls) = 1

\* the steps of the payment flow on the checkout page
PaymentFlowStep ==
  \/ FetchOrderSucceeds
  \/ \E msg \in Failures : FetchOrderFails(msg)
  \/ InitiatePaymentSucceeds
  \/ \E msg \in Failures : InitiatePaymentFails(msg)
  \/ handleSubmit
  \/ \E msg \in {"Your card was declined.", "Payment failed"} : ConfirmPaymentFails(msg)
  \/ ConfirmPaymentSucceeds

\* C10: a successful order submission leaves the cart empty; no step of the
\* payment flow (order fetch, payment-session creation, payment confirmation,
\* succeeding or failing) changes the cart; and an empty cart becomes
\* non-empty only by an addItem.
C10_CartStaysEmpty ==
  [][/\ \A k \in 1..Len(calls), id \in OrderIds :
          CreateOrderSucceeds(k, id) => (items' = <<>> /\ Rehydrate(cartStorage') = <<>>)
     /\ PaymentFlowStep => items' = items
     /\ (items = <<>> /\ items' # <<>>) =>
          \E p \in Products : items' = addItem(items, [product |-> p, quantity |-> 1])]_vars

C10_Witness ==
  /\ items = <<>>
  /\ cartStorage = CartRecord(<<>>)
  /\ ckOrder = "o1"
  /\ ckPc = "done"
  /\ clientSecret = ""
  /\ toasts = {"Network error. Please check your connection."}

\* ---- C11: a failed checkout attempt leaves the cart and the session alone

\* handleCheckout ended without an order: a precondition failed
CheckoutPreconditionFails ==
  handleCheckout /\ (toasts' = Unauthenticated \/ toasts' = EmptyCart)

\* C11: when a checkout attempt fails (a precondition fails, or the
\* order-creation request is rejected by the network or by the server), the
\* cart (in memory and persisted) and the auth session (user, token, persisted
\* session, persisted token) are exactly what they were before the failing step.
C11_FailedCheckoutLeavesCartAndSession ==
  [][(CheckoutPreconditionFails \/ \E k \in 1..Len(calls) : \E msg \in Failures :
        CreateOrderFails(k, msg))
     => UNCHANGED <<items, cartStorage, user, token, authStorage, lsToken>>]_vars

\* the order-creation request of a logged-in user with two lines in the cart
\* has just been rejected by the server, before any checkout page was opened
C11_Witness ==
  /\ toasts = {"Unauthorized"}
  /\ page = "cart"
  /\ ckPc = "none"
  /\ calls = <<>>
  /\ ~cartLoading
  /\ Len(items) = 2
  /\ Rehydrate(cartStorage) = items
  /\ user # Null
  /\ token # Null

\* ---- C12: a payment session is opened only for an order that was fetched

\* the places of the POST /payments/checkout requests among `rs`
PaymentRequests(rs) ==
  {k \in 1..Len(rs) : rs[k].method = "POST" /\ rs[k].url = <<"payments", "checkout">>}

\* C12: a payment-session request (POST /payments/checkout) for an order id is
\* sent only by the step that has just received the successful order-fetch
\* response for that same id (the page was awaiting GET /orders/:id, and the
\* order it stores from the response is the one the request names); and when
\* the order fetch fails no payment-session request is sent and the page has
\* finished, so none follows.
C12_PaymentSessionOnlyAfterOrderFetched ==
  [][/\ \A k \in PaymentRequests(requests') :
          /\ ckPc = "getById"
          /\ ckPc' = "checkout"
          /\ ckOrder' # Null
          /\ requests'[k].body.orderId = ckOrder'
          /\ requests'[k].body.orderId = ckOrderId
     /\ (\E msg \in Failures : FetchOrderFails(msg))
          => (PaymentRequests(requests') = {} /\ ckPc' = "done" /\ clientSecret' = "")
    ]_vars

\* the payment session for order o2 has just been requested, after o2 was fetched
C12_Witness ==
  /\ PaymentRequests(requests) # {}
  /\ \A k \in PaymentRequests(requests) : requests[k].body.orderId = "o2"
  /\ ckOrder = "o2"
  /\ ckPc = "checkout"

\* ---- C13: the payment return callback is not proof of payment

\* C13: the client reports a payment as completed only to conclude a payment
\* session that is pending: the success report is raised only from a state in
\* which a card confirmation is awaited, never on the strength of a return URL
\* that matches no pending payment.
C13_CallbackNeverConfirmsAlone ==
  [][("Payment completed successfully!" \in toasts') => payPc = "confirmPayment"]_vars

\* ---- C14: a rejected credential ends the session

\* the step is the continuation of a backend call that the server rejected for
\* its credential: the interceptor's message of a 401 answer is shown, or
\* AuthGuard's user lookup failed
CredentialRejected ==
  \/ \E k \in 1..Len(calls) : CreateOrderFails(k, "Unauthorized")
  \/ FetchOrderFails("Unauthorized")
  \/ InitiatePaymentFails("Unauthorized")
  \/ GetMeFails

\* C14: whenever an authenticated backend call (order creation, order fetch,
\* payment checkout, user lookup) is rejected because the credential is invalid
\* or expired, the session is destroyed: afterwards the user and the token are
\* both absent and the persisted token is purged.
C14_CredentialRejectionDestroysSession ==
  [][CredentialRejected
     => (user' = Null /\ token' = Null /\ lsToken' = Null
         /\ AuthOf(authStorage').token = Null)]_vars

\* ---- C15: a failed payment-session creation

\* the checkout page of its order has finished without a client secret: the
\* payment-session request of this page was rejected
PaymentSessionFailed == ckPc = "done" /\ ckOrder # Null /\ clientSecret = ""

\* C15: when the payment-session request fails, the step that receives the
\* failure shows it, sends nothing (no second payment-session request, and no
\* request that could change the order) and ends the page's flow; from then on
\* a payment-session request is sent again only after the user opened or
\* loaded a checkout page again, which is always possible for the same order
\* id and fetches the order afresh, and every successful fetch sends a
\* payment-session request.
C15_FailedPaymentSessionIsFinalUntilReopened ==
  [][/\ \A msg \in Failures : InitiatePaymentFails(msg)
          => (toasts' = {msg} /\ requests' = <<>> /\ PaymentSessionFailed'
              /\ ~ckLoading' /\ UNCHANGED <<ckOrderId, ckOrder>>)
     /\ (PaymentSessionFailed /\ ~PaymentSessionFailed')
          => \/ \E id \in OrderIds : OpenCheckout(id)
             \/ \E id \in OrderIds : LoadCheckout(id)
             \/ \E k \in 1..Len(calls) : \E id \in OrderIds : CreateOrderSucceeds(k, id)
             \/ Restart \/ OpenReturnUrl
     /\ PaymentSessionFailed => PaymentRequests(requests') = {}
     /\ PaymentSessionFailed => ENABLED OpenCheckout(ckOrder)
     /\ \A id \in OrderIds : OpenCheckout(id)
          => /\ ckPc' = "getById"
             /\ ckOrderId' = id
             /\ \E k \in 1..Len(requests') :
                  requests'[k].method = "GET" /\ requests'[k].url = <<"orders", id>>
     /\ FetchOrderSucceeds
          => \E k \in PaymentRequests(requests') : requests'[k].body.orderId = ckOrderId
    ]_vars

\* the payment-session request for order o1 has just failed on the checkout page
C15_Witness ==
  /\ PaymentSessionFailed
  /\ ckOrder = "o1"
  /\ page = "checkout"
  /\ ~ckLoading
  /\ toasts = {"Network error. Please check your connection."}

\* ---- C16: the card provider reports an error

\* the messages a failed stripe.confirmPayment is modelled to end with
CardErrors == {"Your card was declined.", "Payment failed"}

\* C16: when the card provider's confirmation reports an error, the attempt
\* is over (nothing is awaited any more), the provider's message is shown, no
\* request is sent (the order is not touched), the form's loading flag is false
\* and, on the checkout page, the form is still rendered, so the submit control
\* is enabled again; a new confirmation starts only by handleSubmit.
C16_CardErrorReenablesSubmit ==
  [][/\ \A msg \in CardErrors : ConfirmPaymentFails(msg)
          => /\ toasts' = {msg}
             /\ requests' = <<>>
             /\ payPc' = "idle"
             /\ ~payLoading'
             /\ page = "checkout" => (page' = "checkout" /\ FormRendered')
             /\ UNCHANGED <<ckOrderId, ckOrder, clientSecret>>
     /\ (payPc = "idle" /\ payPc' = "confirmPayment") => handleSubmit
    ]_vars

\* the card was declined and the form is ready for another submission
C16_Witness ==
  /\ toasts = {"Your card was declined."}
  /\ FormRendered
  /\ payPc = "idle"
  /\ ~payLoading
  /\ ENABLED handleSubmit

\* ---- C17: updateQuantity clamps

\* n clamped into [lo, hi]
Clamp(n, lo, hi) == Max(lo, Min(n, hi))

\* C17: updateQuantity(productId, n) sets the quantity of the line of that
\* product to n clamped into [1, stock] and leaves every other line alone; if
\* no line has that product id the cart is unchanged.
C17_UpdateQuantityClamps ==
  [][\A id \in ProductIds, n \in QtyArgs : CallUpdateQuantity(id, n)
       => IF HasLine(items, id)
          THEN /\ Len(items') = Len(items)
               /\ \A k \in 1..Len(items) :
                    items'[k] = IF items[k].product.id = id
                                THEN [items[k] EXCEPT
                                        !.quantity = Clamp(n, 1, items[k].product.stock)]
                                ELSE items[k]
          ELSE items' = items]_vars

\* ---- C18: removeItem

\* how many of the first k lines of `its` are lines of productId
LinesBefore(its, productId, k) ==
  Cardinality({j \in 1..k : its[j].product.id = productId})

\* C18: after removeItem(productId) no line has that product id and every
\* other line is still there, unchanged and in the same order; if no line had
\* that product id the cart is unchanged. The step is recognised by storeCall.
C18_RemoveItemRemovesOnlyThatLine ==
  [][storeCall'.op = "removeItem"
       => LET id == storeCall'.productId IN
            /\ ~HasLine(items', id)
            /\ Len(items') = Len(items) - LinesBefore(items, id, Len(items))
            /\ \A k \in 1..Len(items) :
                 items[k].product.id # id
                   => items'[k - LinesBefore(items, id, k)] = items[k]
            /\ ~HasLine(items, id) => items' = items
            /\ Rehydrate(cartStorage') = items'
    ]_vars

\* removeItem('A') has just been called and left the line of B, above stock
\* as the store allows, alone in the cart
C18_Witness ==
  /\ storeCall = StoreCall("removeItem", "A", 0)
  /\ Len(items) = 1
  /\ items[1].product.id = "B"
  /\ items[1].quantity = 3

\* ---- C19: the last updateQuantity wins

\* C19: for a product in the cart, after any sequence of updateQuantity calls
\* the quantity of its line is the value of the last call issued, clamped into
\* [1, stock].
C19_LastUpdateQuantityWins ==
  storeCall.op = "updateQuantity"
    => \A k \in LinesOf(items, storeCall.productId) :
         items[k].quantity = Clamp(storeCall.quantity, 1, items[k].product.stock)

\* ---- C20: setAuth, logout and the persisted session

\* the session as a page load recovers it from localStorage is the session in
\* memory, and the bare token key holds the session's token
SessionPersisted ==
  /\ AuthOf(authStorage) = [user |-> user, token |-> token]
  /\ lsToken = token

\* C20: setAuth(user, token) leaves exactly that user and that token as the
\* session, whatever it was before, and persists it; logout() leaves user and
\* token both absent and purges the persisted token; a page load recovers the
\* session unchanged, so what it finds is what the last setAuth or logout left.
C20_SessionReplacedPersistedRecovered ==
  [][/\ SessionPersisted'
     /\ \A u \in Users, t \in Tokens : RegisterSucceeds(u, t)
          => (user' = u /\ token' = t /\ authStorage' = AuthRecord(u, t))
     /\ \A u \in Users : GetMeSucceeds(u)
          => (user' = u /\ token' = guardToken /\ authStorage' = AuthRecord(u, guardToken))
     /\ (ClickLogout \/ GetMeFails)
          => (user' = Null /\ token' = Null /\ lsToken' = Null
              /\ authStorage' = AuthRecord(Null, Null))
     /\ (Restart \/ OpenReturnUrl \/ ConfirmPaymentSucceeds
           \/ \E id \in OrderIds : LoadCheckout(id))
          => UNCHANGED <<user, token, lsToken, authStorage>>
    ]_vars

\* a session was set and then removed by logout: nothing of it is left in
\* memory or in localStorage
C20_Witness ==
  /\ authStorage = AuthRecord(Null, Null)
  /\ user = Null
  /\ token = Null
  /\ lsToken = Null

\* ---- C21: submissions from the cart are serialized

\* CartPage renders its checkout button, and the button is not disabled: the
\* cart is not empty (else the page returns its empty view) and
\* disabled={loading || !user} is false
CheckoutButtonEnabled ==
  /\ page = "cart"
  /\ Len(items) # 0
  /\ ~(cartLoading \/ user = Null)

\* C21: a click on the enabled checkout button never runs handleCheckout
\* while an order-creation request is still awaited, so two order-creation
\* requests are never in flight together.
C21_SubmissionsSerialized ==
  [][(CheckoutButtonEnabled /\ handleCheckout) => calls = <<>>]_vars

\* ---- C22: one order-creation request per checkout, never re-sent

\* C22: no step sends more than one order-creation request; a step that sends
\* one is a handleCheckout, which leaves exactly one more request awaited;
\* and the step that receives a network failure or a server rejection sends
\* nothing and leaves one request fewer awaited.
C22_OneRequestPerCheckoutNoRetry ==
  [][/\ Cardinality(OrderRequests(requests')) <= 1
     /\ OrderRequests(requests') # {}
          => (handleCheckout /\ Len(calls') = Len(calls) + 1)
     /\ \A k \in 1..Len(calls), msg \in Failures : CreateOrderFails(k, msg)
          => (requests' = <<>> /\ Len(calls') = Len(calls) - 1)
     /\ Len(calls') > Len(calls) => handleCheckout
    ]_vars

\* the only order-creation request was lost on the network: nothing is
\* awaited, nothing was sent, the cart page is at rest with its lines
C22_Witness ==
  /\ toasts = {"Network error. Please check your connection."}
  /\ requests = <<>>
  /\ calls = <<>>
  /\ page = "cart"
  /\ ckPc = "none"
  /\ ~cartLoading
  /\ Len(items) = 1
  /\ user # Null

\* ---- C23: the transitions of the payment session

\* the payment session of the checkout page, read off the page's state:
\* INITIATED while POST /payments/checkout is awaited, AWAITING_CONFIRMATION
\* once the client secret is held, none otherwise
SessionStatus ==
  IF clientSecret # "" THEN "AWAITING_CONFIRMATION"
  ELSE IF ckPc = "checkout" THEN "INITIATED"
  ELSE "none"

\* the step ends a card confirmation: CONFIRMED or FAILED
ConfirmationEnds ==
  ConfirmPaymentSucceeds \/ \E msg \in CardErrors : ConfirmPaymentFails(msg)

\* C23: the session becomes AWAITING_CONFIRMATION only from INITIATED, when
\* the provider session is created; the provider's confirmation is called,
\* and awaited, only in AWAITING_CONFIRMATION with the order loaded; and a
\* confirmation ends (CONFIRMED or FAILED) only from an awaited confirmation,
\* so never directly from INITIATED.
C23_PaymentSessionTransitions ==
  [][/\ (SessionStatus # "AWAITING_CONFIRMATION" /\ SessionStatus' = "AWAITING_CONFIRMATION")
          => (SessionStatus = "INITIATED" /\ InitiatePaymentSucceeds)
     /\ handleSubmit => (SessionStatus = "AWAITING_CONFIRMATION" /\ ckOrder # Null)
     /\ payPc' = "confirmPayment"
          => (SessionStatus' = "AWAITING_CONFIRMATION" /\ ckOrder' # Null)
     /\ ConfirmationEnds
          => (payPc = "confirmPayment" /\ SessionStatus = "AWAITING_CONFIRMATION")
     /\ SessionStatus = "INITIATED" => ~ConfirmationEnds
    ]_vars

\* the card confirmation of order o1 is awaited, with the client secret held
C23_Witness ==
  /\ payPc = "confirmPayment"
  /\ payLoading
  /\ clientSecret = "cs"
  /\ ckOrder = "o1"

\* ---- C24: the checkout flow is resumed from the URL and the server alone

\* the step mounts a checkout page for order `id`
MountsCheckout(id) ==
  \/ LoadCheckout(id)
  \/ OpenCheckout(id)
  \/ \E k \in 1..Len(calls) : CreateOrderSucceeds(k, id)

\* C24: whatever the state before, a checkout page that mounts for the order
\* id of its URL starts with no order, no client secret and no confirmation
\* awaited, and asks the server for that order; on a fresh page load the
\* stores hold what localStorage holds; and from then on the order the page
\* holds, and the order its payment-session request names, is the one of the
\* URL, as answered by the server.
C24_CheckoutResumesFromUrlAlone ==
  [][/\ \A id \in OrderIds : MountsCheckout(id)
          => /\ ckOrderId' = id
             /\ ckOrder' = Null
             /\ clientSecret' = ""
             /\ ckPc' = "getById"
             /\ payPc' = "idle"
             /\ ~payLoading'
             /\ \E k \in 1..Len(requests') :
                  requests'[k].method = "GET" /\ requests'[k].url = <<"orders", id>>
             /\ PaymentRequests(requests') = {}
     /\ \A id \in OrderIds : LoadCheckout(id)
          => /\ items' = Rehydrate(cartStorage)
             /\ [user |-> user', token |-> token'] = AuthOf(authStorage)
             /\ guardToken' = AuthOf(authStorage).token
             /\ calls' = <<>>
     /\ ckOrder' \in {Null, ckOrderId'}
     /\ clientSecret' # "" => ckOrder' = ckOrderId'
     /\ \A k \in PaymentRequests(requests') : requests'[k].body.orderId = ckOrderId'
    ]_vars

\* the flow of order o2 has reached the card form again, with the session
\* recovered from localStorage
C24_Witness ==
  /\ ckOrderId = "o2"
  /\ ckOrder = "o2"
  /\ clientSecret = "cs"
  /\ FormRendered
  /\ calls = <<>>
  /\ toasts = {}
  /\ [user |-> user, token |-> token] = AuthOf(authStorage)

\* ---- C25: a product without stock is not added from the listing

\* C25: handleAddToCart on a product whose stock is 0 leaves the cart, in
\* memory and persisted, unchanged and only reports it; so no cart filled
\* from the listing ever holds a line of such a product.
C25_OutOfStockNeverAdded ==
  [][/\ \A p \in Products : (p.stock = 0 /\ handleAddToCart(p))
          => (UNCHANGED <<items, cartStorage>> /\ toasts' = {"Product out of stock"})
     /\ \A k \in 1..Len(items') : items'[k].product.stock # 0
    ]_vars

\* Add to Cart has just been refused for the product without stock, with two
\* lines in the cart
C25_Witness ==
  /\ toasts = {"Product out of stock"}
  /\ page = "products"
  /\ Len(items) = 2
  /\ \A k \in 1..Len(items) : items[k].product.id # "Z"

\* ---- C26: user, token and the localStorage token go together

\* C26: in every reachable state the user is absent exactly when the token is
\* absent, and the localStorage entry 'token', which the request interceptor
\* attaches to calls, is present with the store's token exactly when the store
\* holds one (both absent otherwise).
C26_UserTokenAndStoredTokenAgree ==
  /\ (user = Null) <=> (token = Null)
  /\ lsToken = token

\* AuthGuard has authorized the session it looked up: user, token and the
\* localStorage token are all present
C26_Witness ==
  /\ guardPc = "done"
  /\ isAuthorized
  /\ user = "u1"
  /\ token = "t1"
  /\ lsToken = "t1"

\* ---- C27: the checkout page and its AuthGuard

\* the places among `rs` of the requests the checkout page sends: the order
\* fetch and the payment-session creation
CheckoutPageRequests(rs) ==
  {k \in 1..Len(rs) :
     \/ rs[k].method = "GET" /\ \E id \in OrderIds : rs[k].url = <<"orders", id>>
     \/ k \in PaymentRequests(rs)}

\* C27: the checkout page sends an order fetch or a payment-session request
\* only when its AuthGuard has authorized the session (a token is present
\* and the user lookup has succeeded).
C27_NoCheckoutRequestUnlessAuthorized ==
  [][CheckoutPageRequests(requests') # {} => (isAuthorized' /\ token' # Null)]_vars

\* ---- C28: a triggered checkout ends with the loading flag reset

\* an awaited order-creation request completes, one way or the other
OrderRequestCompletes ==
  \/ \E k \in 1..Len(calls), id \in OrderIds : CreateOrderSucceeds(k, id)
  \/ \E k \in 1..Len(calls), msg \in Failures : CreateOrderFails(k, msg)

\* the application, provided every awaited order-creation request completes
SpecLive == Spec /\ WF_vars(OrderRequestCompletes)

\* C28: whenever the cart page's loading flag is true (a checkout was
\* triggered and its request is awaited), it is eventually false again, and
\* then the checkout button of an authenticated user with lines in the cart
\* is enabled, whatever the outcome of the request.
C28_LoadingEventuallyFalse ==
  cartLoading ~> (~cartLoading /\ ((page = "cart" /\ user # Null /\ Len(items) # 0)
                                     => CheckoutButtonEnabled))

\* the server has rejected the order: the flag is false and the button of the
\* authenticated user is enabled again
C28_Witness ==
  /\ toasts = {"Unauthorized"}
  /\ calls = <<>>
  /\ ckPc = "none"
  /\ ~cartLoading
  /\ CheckoutButtonEnabled

\* ---- C29: the other lines and their order are preserved

\* C29: addItem, updateQuantity and removeItem called for a product leave the
\* line of every other product as it was; addItem and updateQuantity keep
\* every line at its place, with its product, and addItem of a product not in
\* the cart puts its line after all the others; removeItem keeps the
\* remaining lines in their order. The step is recognised by storeCall.
C29_OtherLinesAndOrderPreserved ==
  [][storeCall'.op \in {"addItem", "updateQuantity", "removeItem"}
       => LET id == storeCall'.productId
              removed(k) == IF storeCall'.op = "removeItem"
                            THEN LinesBefore(items, id, k) ELSE 0
          IN /\ \A k \in 1..Len(items) :
                  items[k].product.id # id => items'[k - removed(k)] = items[k]
             /\ storeCall'.op # "removeItem"
                  => /\ \A k \in 1..Len(items) : items'[k].product = items[k].product
                     /\ Len(items') = IF storeCall'.op = "addItem" /\ ~HasLine(items, id)
                                      THEN Len(items) + 1 ELSE Len(items)
             /\ (storeCall'.op = "addItem" /\ ~HasLine(items, id))
                  => /\ items'[Len(items')].product.id = id
                     /\ items'[Len(items')].quantity = storeCall'.quantity
    ]_vars

\* addItem has just put the line of B after the line of A, which it left alone
C29_Witness ==
  /\ storeCall = StoreCall("addItem", "B", 2)
  /\ Len(items) = 2
  /\ items[1].product.id = "A"
  /\ items[1].quantity = 1
  /\ items[2].product.id = "B"
  /\ items[2].quantity = 2

\* ---- C30: the quantity buttons of the cart page

\* the quantity of line k of `its` is within [1, stock]
WithinStock(its, k) == its[k].quantity \in 1..its[k].product.stock

\* C30: a click on the decrease or the increase button of a line whose
\* quantity is within [1, stock] leaves it within [1, stock], moved by one at
\* most, and leaves the other lines alone; the increase button acts only
\* while the quantity is below the stock.
C30_QuantityButtonsStayWithinStock ==
  [][\A k \in 1..Len(items) :
       /\ ((ClickDecrease(k) \/ ClickIncrease(k)) /\ WithinStock(items, k))
            => /\ Len(items') = Len(items)
               /\ WithinStock(items', k)
               /\ \A j \in 1..Len(items) : j # k => items'[j] = items[j]
       /\ (ClickDecrease(k) /\ WithinStock(items, k))
            => items'[k].quantity = Max(1, items[k].quantity - 1)
       /\ ClickIncrease(k)
            => /\ items[k].quantity < items[k].product.stock
               /\ items'[k].quantity = items[k].quantity + 1
    ]_vars

\* the line of B has been raised to its stock of 2 on the cart page: the
\* increase button is disabled, the decrease button is not
C30_Witness ==
  /\ page = "cart"
  /\ toasts = {}
  /\ \E k \in 1..Len(items) :
       /\ items[k].product.id = "B"
       /\ items[k].quantity = 2
       /\ ~ENABLED ClickIncrease(k)
       /\ ENABLED ClickDecrease(k)

====
